---------------------------- MODULE Spec2Model ----------------------------
(***************************************************************************)
(* A model of package trid (src/trid.go): Scan runs the TrID tool as a     *)
(* subprocess with a timeout (execCmd), classifies the captured text       *)
(* (checkTridError) and parses it into FileType records (parseOutput).     *)
(*                                                                         *)
(* Text is modelled character by character: a string is a sequence of      *)
(* one-character strings, so that substring search, the split into blocks  *)
(* and the two regular expressions are computed as the code computes them. *)
(***************************************************************************)
EXTENDS Integers, Sequences, FiniteSets, TLC

(***************************************************************************)
(* Bounds of the model.                                                    *)
(***************************************************************************)
\* Lines the tool writes in one run of Scan (specification Spec).
MaxLines == 3
\* Lines of the text handed to parseOutput (specification SpecParse).
MaxParseLines == 3
\* Pieces of the text handed to checkTridError (specification SpecClassify).
MaxPieces == 3

(***************************************************************************)
(* Evaluation helpers.  The({F(x) : x \in {e}}) is F(e) with e evaluated   *)
(* once and x bound to its value.                                          *)
(***************************************************************************)
The(S) == CHOOSE x \in S : TRUE

MinOf(T) == CHOOSE x \in T : \A y \in T : x <= y

MaxOf(T) == CHOOSE x \in T : \A y \in T : x >= y

\* The least element of a non-empty set of integers.
Least(S) == The({MinOf(T) : T \in {S}})

(***************************************************************************)
(* Characters and strings.                                                 *)
(***************************************************************************)
NL == "\n"
CR == "\r"

\* \s of Go's regexp syntax: [\t\n\f\r ].
IsSpace(c) == c \in {" ", "\t", "\n", "\f", "\r"}

Digits == <<"0", "1", "2", "3", "4", "5", "6", "7", "8", "9">>

IsDigit(c) == \E d \in 1..10 : Digits[d] = c

DigitValue(c) == (CHOOSE d \in 1..10 : Digits[d] = c) - 1

Upper ==
    <<"A","B","C","D","E","F","G","H","I","J","K","L","M",
      "N","O","P","Q","R","S","T","U","V","W","X","Y","Z">>

Lower ==
    <<"a","b","c","d","e","f","g","h","i","j","k","l","m",
      "n","o","p","q","r","s","t","u","v","w","x","y","z">>

\* The lower-case letter of each upper-case letter.
LowerOf == [c \in {Upper[k] : k \in 1..26} |-> Lower[CHOOSE k \in 1..26 : Upper[k] = c]]

\* unicode.ToLower on one (ASCII) character.
LowerChar(c) == IF c \in DOMAIN LowerOf THEN LowerOf[c] ELSE c

\* strings.ToLower
ToLower(s) == [k \in 1..Len(s) |-> LowerChar(s[k])]

\* Whether p occurs in s at position i.
HasAt(s, i, p) ==
    /\ i >= 1
    /\ i + Len(p) - 1 <= Len(s)
    /\ \A k \in 1..Len(p) : s[i + k - 1] = p[k]

\* Whether p occurs in s at position i, letters compared without case ((?i)).
HasAtFold(s, i, p) ==
    /\ i >= 1
    /\ i + Len(p) - 1 <= Len(s)
    /\ \A k \in 1..Len(p) : LowerChar(s[i + k - 1]) = LowerChar(p[k])

\* strings.Contains, for a non-empty p.
Contains(s, p) == \E i \in 1..Len(s) : HasAt(s, i, p)

\* strings.Index from position i on: where p first occurs at or after i, or 0.
IndexFrom(s, i, p) ==
    The({IF at = {} THEN 0 ELSE MinOf(at) :
            at \in {{j \in i..Len(s) : HasAt(s, j, p)}}})

\* strings.ReplaceAll, for a non-empty old: the occurrences of old are taken
\* from the left, without overlap.
RECURSIVE ReplaceFrom(_, _, _, _)
ReplaceFrom(s, i, old, new) ==
    The({IF j = 0 THEN SubSeq(s, i, Len(s))
         ELSE SubSeq(s, i, j - 1) \o new \o ReplaceFrom(s, j + Len(old), old, new) :
            j \in {IndexFrom(s, i, old)}})

ReplaceAll(s, old, new) == ReplaceFrom(s, 1, old, new)

\* strings.Split, for a non-empty sep: the pieces between the non-overlapping
\* occurrences of sep, found from the left.
RECURSIVE SplitFrom(_, _, _)
SplitFrom(s, i, sep) ==
    The({IF j = 0 THEN <<SubSeq(s, i, Len(s))>>
         ELSE <<SubSeq(s, i, j - 1)>> \o SplitFrom(s, j + Len(sep), sep) :
            j \in {IndexFrom(s, i, sep)}})

Split(s, sep) == SplitFrom(s, 1, sep)

\* strings.TrimSpace
TrimSpace(s) ==
    The({IF keep = {} THEN <<>> ELSE SubSeq(s, MinOf(keep), MaxOf(keep)) :
            keep \in {{i \in 1..Len(s) : ~IsSpace(s[i])}}})

(***************************************************************************)
(* strconv.ParseFloat on the text reFileInfo can capture: digits and dots. *)
(* A parsed number is kept exactly, as <<n, k>> for n / 10^k with no       *)
(* trailing zero in the fraction.                                          *)
(***************************************************************************)
\* The number the digits of s[1..k] spell, a dot skipped.
RECURSIVE DigitsValue(_, _)
DigitsValue(s, k) ==
    IF k = 0 THEN 0
    ELSE IF s[k] = "." THEN DigitsValue(s, k - 1)
    ELSE 10 * DigitsValue(s, k - 1) + DigitValue(s[k])

RECURSIVE Normal(_, _)
Normal(n, k) == IF k > 0 /\ n % 10 = 0 THEN Normal(n \div 10, k - 1) ELSE <<n, k>>

\* Accepted: digits with at most one dot and at least one digit ("1.", ".5").
ParseFloat(s) ==
    LET dots == {i \in 1..Len(s) : s[i] = "."}
        digs == {i \in 1..Len(s) : IsDigit(s[i])}
        wellFormed == /\ Cardinality(dots) <= 1
                      /\ Cardinality(digs) >= 1
                      /\ Cardinality(dots) + Cardinality(digs) = Len(s)
        frac == IF dots = {} THEN 0 ELSE Len(s) - MinOf(dots)
    IN  IF wellFormed
        THEN [ok |-> TRUE, val |-> Normal(DigitsValue(s, Len(s)), frac)]
        ELSE [ok |-> FALSE, val |-> <<0, 0>>]

(***************************************************************************)
(* reFileInfo (trid.go line 37):                                           *)
(*   (?mi)([0-9.]+%)\s+\((\..*?)\)\s+(.*?(?:\s+\([^()]+\))*?)              *)
(*        (?:\s+\([^()]+\))?$                                              *)
(* matched with Go's leftmost-first rules.  A position is an index into    *)
(* the text; 0 stands for "no match".                                      *)
(***************************************************************************)
\* $ under (?m): at the end of the text or before a newline.
AtEOL(s, i) == i = Len(s) + 1 \/ (i <= Len(s) /\ s[i] = NL)

\* The first end of line at or after i, for i at most Len(s) + 1.
LineEnd(s, i) == Least({e \in i..(Len(s) + 1) : AtEOL(s, e)})

\* The position after the longest run of \s starting at i.
SpaceRun(s, i) ==
    IF i > Len(s) \/ ~IsSpace(s[i]) THEN i
    ELSE Least({j \in i..(Len(s) + 1) :
                   (j > Len(s) \/ ~IsSpace(s[j])) /\ \A k \in i..(j - 1) : IsSpace(s[k])})

IsNum(c) == IsDigit(c) \/ c = "."

\* The position after the longest run of [0-9.] starting at i.
NumRun(s, i) ==
    IF i > Len(s) \/ ~IsNum(s[i]) THEN i
    ELSE Least({j \in i..(Len(s) + 1) :
                   (j > Len(s) \/ ~IsNum(s[j])) /\ \A k \in i..(j - 1) : IsNum(s[k])})

IsParen(c) == c \in {"(", ")"}

\* The position after the longest run of [^()] starting at i.
NoParenRun(s, i) ==
    IF i > Len(s) \/ IsParen(s[i]) THEN i
    ELSE Least({j \in i..(Len(s) + 1) :
                   (j > Len(s) \/ IsParen(s[j])) /\ \A k \in i..(j - 1) : ~IsParen(s[k])})

\* \( [^()]+ \) at a: the position after it, or 0.
ParenGroup(s, a) ==
    IF a <= Len(s) /\ s[a] = "("
    THEN The({IF b > a + 1 /\ b <= Len(s) /\ s[b] = ")" THEN b + 1 ELSE 0 :
                 b \in {NoParenRun(s, a + 1)}})
    ELSE 0

\* \s+\([^()]+\) at q: the position after it, or 0.  Each quantifier is
\* followed by a character outside its class, so only the longest run can match.
Group(s, q) ==
    The({IF a > q THEN ParenGroup(s, a) ELSE 0 : a \in {SpaceRun(s, q)}})

\* (?:\s+\([^()]+\))*?  (?:\s+\([^()]+\))?  $   tried at q, where .*? stopped:
\* no lazy repetition first, and with it the optional group before its absence;
\* then one repetition more.  <<end of capture 3, end of match>>, or <<>>.
RECURSIVE NameTail(_, _)
NameTail(s, q) ==
    The({IF g # 0 /\ AtEOL(s, g) THEN <<q, g>>
         ELSE IF AtEOL(s, q) THEN <<q, q>>
         ELSE IF g # 0 THEN NameTail(s, g)
         ELSE <<>> :
            g \in {Group(s, q)}})

\* .*? and what follows it, from p: .*? takes the fewest characters of the
\* line after which the rest matches, which it does at the end of the line at
\* the latest.  <<end of capture 3, end of match>>.
RECURSIVE NameFrom(_, _)
NameFrom(s, p) ==
    The({IF t # <<>> THEN t ELSE NameFrom(s, p + 1) : t \in {NameTail(s, p)}})

\* .*?\)\s+ from e: the first ")" of the line that white space follows; its
\* position, or 0.  What follows it (capture 3) matches wherever it is tried,
\* so the first candidate is the one taken.
ExtEnd(s, e) ==
    The({IF ends = {} THEN 0 ELSE MinOf(ends) :
            ends \in {{j \in e..(LineEnd(s, e) - 1) :
                          s[j] = ")" /\ j + 1 <= Len(s) /\ IsSpace(s[j + 1])}}})

\* The captures, with the number at i..r, the "(" at w, the ")" at j and the
\* name from p: <<whole match, capture 1, capture 2, capture 3>>.
InfoCaptures(s, i, r, w, j, p) ==
    The({<<SubSeq(s, i, t[2] - 1),
           SubSeq(s, i, r),
           SubSeq(s, w + 1, j - 1),
           SubSeq(s, p, t[1] - 1)>> :
            t \in {NameFrom(s, p)}})

\* \((\..*?)\)\s+ and the rest, with the "(" expected at w.
InfoExt(s, i, r, w) ==
    IF w > r + 1 /\ w + 1 <= Len(s) /\ s[w] = "(" /\ s[w + 1] = "."
    THEN The({IF j = 0 THEN <<>>
              ELSE The({InfoCaptures(s, i, r, w, j, p) : p \in {SpaceRun(s, j + 1)}}) :
                 j \in {ExtEnd(s, w + 2)}})
    ELSE <<>>

\* The match starting at i, or <<>>.
InfoMatchAt(s, i) ==
    The({IF r > i /\ r <= Len(s) /\ s[r] = "%"
         THEN The({InfoExt(s, i, r, w) : w \in {SpaceRun(s, r + 1)}})
         ELSE <<>> :
            r \in {NumRun(s, i)}})

\* The leftmost match starting at i or later, or <<>>; at is the set of the
\* positions where [0-9.] matches, the only ones where a match can start.
RECURSIVE FindFrom(_, _, _)
FindFrom(s, at, i) ==
    The({IF starts = {} THEN <<>>
         ELSE The({IF m # <<>> THEN m ELSE FindFrom(s, at, MinOf(starts) + 1) :
                      m \in {InfoMatchAt(s, MinOf(starts))}}) :
            starts \in {{j \in at : j >= i}}})

\* reFileInfo.FindStringSubmatch: the leftmost match, or nil (<<>>).
FindStringSubmatch(s) ==
    The({FindFrom(s, at, 1) : at \in {{j \in 1..Len(s) : IsNum(s[j])}}})

(***************************************************************************)
(* reFileDetails (trid.go line 38):                                        *)
(*   (?mi)(Mime type|Related URL|Definition|Remarks)\s*:\s*(.*?)$          *)
(***************************************************************************)
KeyMimeType ==
    <<"M","i","m","e"," ","t","y","p","e">>
KeyRelatedURL ==
    <<"R","e","l","a","t","e","d"," ","U","R","L">>
KeyDefinition ==
    <<"D","e","f","i","n","i","t","i","o","n">>
KeyRemarks ==
    <<"R","e","m","a","r","k","s">>

\* The alternatives of capture 1, in the order the pattern lists them.
DetailKeys == <<KeyMimeType, KeyRelatedURL, KeyDefinition, KeyRemarks>>

\* \s*:\s*(.*?)$ after a key of length n found at i: each \s* takes its
\* longest run, newlines included, since ":" must end the first and .*?$
\* matches after any second one; .*? then runs to the end of the line.
\* <<whole match, capture 1, capture 2>>, or <<>>.
DetailValue(s, i, n) ==
    The({IF a <= Len(s) /\ s[a] = ":"
         THEN The({<<SubSeq(s, i, LineEnd(s, b) - 1),
                     SubSeq(s, i, i + n - 1),
                     SubSeq(s, b, LineEnd(s, b) - 1)>> :
                      b \in {SpaceRun(s, a + 1)}})
         ELSE <<>> :
            a \in {SpaceRun(s, i + n)}})

\* The match starting at i, or <<>>: the first alternative found at i, letters
\* compared without regard to case.
DetailMatchAt(s, i) ==
    The({IF keys = {} THEN <<>> ELSE DetailValue(s, i, Len(DetailKeys[MinOf(keys)])) :
            keys \in {{k \in 1..Len(DetailKeys) : HasAtFold(s, i, DetailKeys[k])}}})

\* The successive non-overlapping matches, leftmost first, searching on from
\* position i; at is the set of the positions where a match can start.
RECURSIVE FindAllFrom(_, _, _)
FindAllFrom(s, at, i) ==
    The({IF starts = {} THEN <<>>
         ELSE The({<<found>> \o FindAllFrom(s, at, MinOf(starts) + Len(found[1])) :
                      found \in {DetailMatchAt(s, MinOf(starts))}}) :
            starts \in {{j \in at : j >= i}}})

\* reFileDetails.FindAllStringSubmatch(s, -1)
FindAllStringSubmatch(s) ==
    The({FindAllFrom(s, at, 1) :
            at \in {{j \in 1..Len(s) : DetailMatchAt(s, j) # <<>>}}})

(***************************************************************************)
(* parseOutput (trid.go lines 118-162).                                    *)
(***************************************************************************)
\* The switch of lines 146-155: the field named by m[1], compared exactly.
SetDetail(f, m) ==
    IF m[2] = KeyMimeType THEN [f EXCEPT !.MimeType = m[3]]
    ELSE IF m[2] = KeyRelatedURL THEN [f EXCEPT !.RelatedURL = m[3]]
    ELSE IF m[2] = KeyDefinition THEN [f EXCEPT !.Definition = m[3]]
    ELSE IF m[2] = KeyRemarks THEN [f EXCEPT !.Remarks = m[3]]
    ELSE f

\* The loop of lines 145-156, from the k-th match on.
RECURSIVE ApplyDetails(_, _, _)
ApplyDetails(f, fileDetails, k) ==
    IF k > Len(fileDetails) THEN f
    ELSE The({ApplyDetails(g, fileDetails, k + 1) :
                 g \in {SetDetail(f, fileDetails[k])}})

\* The probability text of line 128: "%" removed, white space trimmed.
ProbabilityText(capture) == TrimSpace(ReplaceAll(capture, <<"%">>, <<>>))

\* NewFileType with the extension left as the tool wrote it.
NewFileTypeKeepCase(result, fileInfo, probability) ==
    The({ApplyDetails([Probability |-> probability,
                       Extension   |-> fileInfo[3],
                       Name        |-> fileInfo[4],
                       MimeType    |-> <<>>,
                       RelatedURL  |-> <<>>,
                       Remarks     |-> <<>>,
                       Definition  |-> <<>>], fileDetails, 1) :
            fileDetails \in {FindAllStringSubmatch(result)}})

\* Lines 138-156: the record of a block whose header gave fileInfo and the
\* number probability.
NewFileType(result, fileInfo, probability) ==
    The({ApplyDetails([Probability |-> probability,
                       Extension   |-> ToLower(fileInfo[3]),
                       Name        |-> fileInfo[4],
                       MimeType    |-> <<>>,
                       RelatedURL  |-> <<>>,
                       Remarks     |-> <<>>,
                       Definition  |-> <<>>], fileDetails, 1) :
            fileDetails \in {FindAllStringSubmatch(result)}})

\* ParseProbability without the continue of line 135: a probability that is
\* no number gives a record with probability 0.
ParseProbabilityNoSkip(result, fileInfo) ==
    The({IF Len(text) = 0 THEN <<>>
         ELSE The({<<NewFileType(result, fileInfo, IF pf.ok THEN pf.val ELSE <<0, 0>>)>> :
                      pf \in {ParseFloat(text)}}) :
            text \in {ProbabilityText(fileInfo[2])}})

\* Lines 128-136: the record appended (a one-element sequence), or nothing
\* when the probability field is empty or no number.
ParseProbability(result, fileInfo) ==
    The({IF Len(text) = 0 THEN <<>>
         ELSE The({IF ~pf.ok THEN <<>>
                   ELSE <<NewFileType(result, fileInfo, pf.val)>> :
                      pf \in {ParseFloat(text)}}) :
            text \in {ProbabilityText(fileInfo[2])}})

\* The body of the loop of lines 122-159 for one block: the record it appends
\* (a one-element sequence), or nothing when it continues.
ParseBlock(result) ==
    The({IF Len(fileInfo) # 4 THEN <<>> ELSE ParseProbability(result, fileInfo) :
            fileInfo \in {FindStringSubmatch(result)}})

\* The loop of lines 122-159, from the k-th block on.
RECURSIVE ParseBlocks(_, _)
ParseBlocks(results, k) ==
    IF k > Len(results) THEN <<>>
    ELSE The({ParseBlock(result) : result \in {results[k]}})
             \o ParseBlocks(results, k + 1)

\* The blocks of line 121.
Blocks(out) == Split(ReplaceAll(out, <<CR, NL>>, <<NL>>), <<NL, NL>>)

\* A slice is a record: Go tells a nil slice from an empty one.
NilSlice == [isNil |-> TRUE, items |-> <<>>]
Slice(items) == [isNil |-> FALSE, items |-> items]

\* An error is its message and the message of the error it wraps.
NilErr == [msg |-> "nil", wraps |-> "nil"]
Err(msg) == [msg |-> msg, wraps |-> "nil"]

parseOutput(out) ==
    The({[fileTypes |-> Slice(ParseBlocks(results, 1)), err |-> NilErr] :
            results \in {Blocks(out)}})

(***************************************************************************)
(* checkTridError (trid.go lines 166-188).                                 *)
(***************************************************************************)
PhraseNoFile ==
    <<"y","o","u"," ","h","a","v","e"," ","t","o"," ","s","p","e","c","i","f","y"," ","a","t"," ","l","e","a","s","t"," ","o","n","e"," ","f","i","l","e"," ","t","o"," ","a","n","a","l","y","z","e">>
PhraseNoDefs ==
    <<"N","o"," ","d","e","f","i","n","i","t","i","o","n","s"," ","a","v","a","i","l","a","b","l","e","!">>
PhraseDefPackage ==
    <<"D","e","f"," ","p","a","c","k","a","g","e">>
PhraseIsEmpty ==
    <<"i","s"," ","e","m","p","t","y","!">>
PhraseNotFound ==
    <<"E","r","r","o","r",":"," ","f","o","u","n","d"," ","n","o"," ","f","i","l","e","(","s",")"," ","t","o"," ","a","n","a","l","y","z","e","!">>
PhraseUnknown ==
    <<"U","n","k","n","o","w","n","!">>

ErrNoFileSpecified == Err("no file specified")
ErrNumberOfMatches == Err("number of matches must be at least 1")
ErrNoDefinitions == Err("no TRiD definitions available")
ErrEmptyDefPackage == Err("TRiD definition package is empty")
ErrFileNotFound == Err("file not found")
ErrUnknownFileType == Err("unknown file type")

\* checkTridError with "Unknown!" looked for before the file-not-found phrase.
checkTridErrorUnknownFirst(out) ==
    IF Contains(out, PhraseNoFile) THEN ErrNoFileSpecified
    ELSE IF Contains(out, PhraseNoDefs) THEN ErrNoDefinitions
    ELSE IF Contains(out, PhraseDefPackage) /\ Contains(out, PhraseIsEmpty)
         THEN ErrEmptyDefPackage
    ELSE IF Contains(out, PhraseUnknown) THEN ErrUnknownFileType
    ELSE IF Contains(out, PhraseNotFound) THEN ErrFileNotFound
    ELSE NilErr

checkTridError(out) ==
    IF Contains(out, PhraseNoFile) THEN ErrNoFileSpecified
    ELSE IF Contains(out, PhraseNoDefs) THEN ErrNoDefinitions
    ELSE IF Contains(out, PhraseDefPackage) /\ Contains(out, PhraseIsEmpty)
         THEN ErrEmptyDefPackage
    ELSE IF Contains(out, PhraseNotFound) THEN ErrFileNotFound
    ELSE IF Contains(out, PhraseUnknown) THEN ErrUnknownFileType
    ELSE NilErr


(***************************************************************************)
(* The text the tool writes.  A line is described by what it is meant to   *)
(* say (a header with its probability, extension and name, a detail line   *)
(* with its key and value, or plain text) and rendered to characters; the  *)
(* code only ever sees the characters.                                     *)
(***************************************************************************)
RECURSIVE Pow10(_)
Pow10(k) == IF k = 0 THEN 1 ELSE 10 * Pow10(k - 1)

RECURSIVE DigitsOf(_)
DigitsOf(n) ==
    IF n < 10 THEN <<Digits[n + 1]>>
    ELSE DigitsOf(n \div 10) \o <<Digits[(n % 10) + 1]>>

\* The last k digits of n, zeros kept.
RECURSIVE FracDigits(_, _)
FracDigits(n, k) ==
    IF k = 0 THEN <<>>
    ELSE FracDigits(n \div 10, k - 1) \o <<Digits[(n % 10) + 1]>>

\* n / 10^k written with k decimal places: Decimal(850, 2) is 8.50.
Decimal(n, k) ==
    IF k = 0 THEN DigitsOf(n)
    ELSE DigitsOf(n \div Pow10(k)) \o <<".">> \o FracDigits(n, k)

NoLine ==
    [kind |-> "plain", prob |-> <<>>, numeric |-> FALSE, value |-> <<0, 0>>,
     ext |-> <<>>, lower |-> <<>>, base |-> <<>>, quals |-> <<>>, key |-> <<>>,
     text |-> <<>>]

\* A header whose probability is the number n / 10^k, written with k decimal
\* places; lower is its extension ext in lower case.
Header(n, k, ext, lower, base, quals) ==
    [NoLine EXCEPT !.kind = "header", !.prob = Decimal(n, k), !.numeric = TRUE,
                   !.value = <<n, k>>, !.ext = ext, !.lower = lower,
                   !.base = base, !.quals = quals]

\* A header whose probability field is the given text, which is no number.
BadHeader(prob, ext, base) ==
    [NoLine EXCEPT !.kind = "header", !.prob = prob, !.ext = ext, !.base = base]

Detail(key, text) == [NoLine EXCEPT !.kind = "detail", !.key = key, !.text = text]

Plain(text) == [NoLine EXCEPT !.text = text]

BlankLine == Plain(<<>>)

RECURSIVE QualText(_)
QualText(quals) ==
    IF quals = <<>> THEN <<>>
    ELSE <<" ", "(">> \o Head(quals) \o <<")">> \o QualText(Tail(quals))

\* The name N of a header line: its base followed by its qualifier groups.
FullName(d) == d.base \o QualText(d.quals)

Render(d) ==
    IF d.kind = "header"
    THEN d.prob \o <<"%", " ", "(">> \o d.ext \o <<")", " ">> \o FullName(d)
    ELSE IF d.kind = "detail"
    THEN <<" ", " ">> \o d.key \o <<":">>
             \o (IF d.text = <<>> THEN <<>> ELSE <<" ">> \o d.text)
    ELSE d.text

\* The lines written one after the other, each ended by the terminator eol.
RECURSIVE TextFrom(_, _, _)
TextFrom(lines, eol, k) ==
    IF k > Len(lines) THEN <<>>
    ELSE Render(lines[k]) \o eol \o TextFrom(lines, eol, k + 1)

TextOf(lines, eol) == TextFrom(lines, eol, 1)

\* All sequences of at most n elements of S.
SeqsUpTo(S, n) == UNION {[1..k -> S] : k \in 0..n}

\* What the tool may write during a run of Scan.
ScanMenu ==
    { Header(850, 2, <<".", "P", "d", "F">>, <<".", "p", "d", "f">>, <<"A", "b">>, <<>>),
      Plain(<<"T", "r", "I", "D">>),
      BlankLine,
      Plain(PhraseUnknown),
      Plain(PhraseDefPackage),
      Plain(PhraseIsEmpty) }

\* The lines of the texts parseOutput is applied to.
ParseMenu ==
    { Header(1000, 1, <<".", "P", "d", "F">>, <<".", "p", "d", "f">>, <<"A", "b">>, <<>>),
      Header(150, 0, <<".", "7", "Z">>, <<".", "7", "z">>, <<"z">>,
             << <<"v", "0", ".", "4">> >>),
      Header(850, 2, <<".", "7", "z">>, <<".", "7", "z">>, <<"z">>,
             << <<"v", "0", ".", "4">>, <<"4", "/", "1">> >>),
      BadHeader(<<"1", ".", "2", ".", "3">>, <<".", "a">>, <<"b">>),
      Detail(KeyMimeType, <<"a", "/", "b">>),
      Detail(KeyDefinition, <<"d", ".", "x">>),
      Detail(KeyRemarks, <<"r">>),
      Detail(KeyRemarks, <<"s">>),
      Detail(KeyRemarks, <<>>),
      Detail(<<"R", "E", "M", "A", "R", "K", "S">>, <<"u">>),
      Plain(<<"T", "r", "I", "D">>),
      BlankLine }

\* The pieces of the texts checkTridError is applied to.
ClassifyMenu ==
    { Plain(PhraseNoFile),
      Plain(PhraseNoDefs),
      Plain(PhraseDefPackage),
      Plain(PhraseIsEmpty),
      Plain(PhraseNotFound),
      Plain(PhraseUnknown),
      Plain(ToLower(PhraseUnknown)),
      Plain(<<"i", "s", " ", "e", "m", "p", "t", "y">>),
      Plain(<<"x">>) }


(***************************************************************************)
(* State.                                                                  *)
(***************************************************************************)
VARIABLES
    pc,               \* where the call is: "idle", "waiting" (inside
                      \* cmd.CombinedOutput), "done" (returned)
    options,          \* Trid.options
    filePath,         \* argument of Scan
    numberOfMatches,  \* argument of Scan
    child,            \* the process started by exec.CommandContext
    helper,           \* a process the child started, holding the output pipe
    ctxErr,           \* ctx.Err()
    eol,              \* the line terminator the tool writes
    emitted,          \* the lines written so far, as descriptions
    out,              \* the characters captured so far
    cmdErr,           \* the error cmd.CombinedOutput returned
    fileTypes,        \* the slice returned
    err,              \* the error returned
    started,          \* whether a subprocess was started
    parsed            \* whether parseOutput was called

vars == <<pc, options, filePath, numberOfMatches, child, helper, ctxErr, eol,
          emitted, out, cmdErr, fileTypes, err, started, parsed>>

procVars == <<child, helper, ctxErr, cmdErr, started>>

(***************************************************************************)
(* The file system and the search path, as Scan sees them.                 *)
(***************************************************************************)
Paths == {"", "testdata/sample.pdf", "non_existent_file.txt", "denied/sample.pdf"}

\* os.Stat(filePath): nil, an error os.IsNotExist accepts, or another error.
Stat(path) ==
    IF path = "testdata/sample.pdf" THEN NilErr
    ELSE IF path = "denied/sample.pdf" THEN Err("permission denied")
    ELSE Err("no such file or directory")

IsNotExist(e) == e = Err("no such file or directory")

\* Whether the command can be started (it cannot in the test of line 84).
CanStart(cmd) == cmd = "trid"

(***************************************************************************)
(* Scan (trid.go lines 80-115) and execCmd (lines 192-210).                *)
(***************************************************************************)
\* Validate with numberOfMatches checked before the file is looked up.
ValidateCountFirst(path, n) ==
    IF path = "" THEN ErrNoFileSpecified
    ELSE IF n < 1 THEN ErrNumberOfMatches
    ELSE IF Stat(path) # NilErr
         THEN (IF IsNotExist(Stat(path)) THEN ErrFileNotFound ELSE Stat(path))
    ELSE NilErr

\* Lines 81-95: the error the validation returns, or nil.
Validate(path, n) ==
    IF path = "" THEN ErrNoFileSpecified
    ELSE IF Stat(path) # NilErr
         THEN (IF IsNotExist(Stat(path)) THEN ErrFileNotFound ELSE Stat(path))
    ELSE IF n < 1 THEN ErrNumberOfMatches
    ELSE NilErr

\* execCmd without the test of ctx.Err() of line 204.
execCmdNoDeadlineTest(e, ctx) == e

\* Lines 204-209: the error execCmd returns, from the error of CombinedOutput
\* and ctx.Err().  fmt.Errorf with %w wraps its operand, nil included.
execCmd(e, ctx) ==
    IF ctx = "DeadlineExceeded"
    THEN [msg |-> "command timed out", wraps |-> e.msg]
    ELSE e

\* ScanResult without the test of err of lines 109-111: the text is parsed
\* whatever execCmd's error.
ScanResultErrIgnored(text, e) ==
    The({IF tridErr # NilErr
         THEN [fileTypes |-> NilSlice, err |-> tridErr, parsed |-> FALSE]
         ELSE The({[fileTypes |-> r.fileTypes, err |-> r.err, parsed |-> TRUE] :
                      r \in {parseOutput(text)}}) :
            tridErr \in {checkTridError(text)}})

\* ScanResult returning an empty slice, not nil, with the error of the text.
ScanResultEmptySlice(text, e) ==
    The({IF tridErr # NilErr
         THEN [fileTypes |-> Slice(<<>>), err |-> tridErr, parsed |-> FALSE]
         ELSE IF e # NilErr
         THEN [fileTypes |-> NilSlice, err |-> e, parsed |-> FALSE]
         ELSE The({[fileTypes |-> r.fileTypes, err |-> r.err, parsed |-> TRUE] :
                      r \in {parseOutput(text)}}) :
            tridErr \in {checkTridError(text)}})

\* Lines 105-114: what Scan returns from the captured text and execCmd's error.
ScanResult(text, e) ==
    The({IF tridErr # NilErr
         THEN [fileTypes |-> NilSlice, err |-> tridErr, parsed |-> FALSE]
         ELSE IF e # NilErr
         THEN [fileTypes |-> NilSlice, err |-> e, parsed |-> FALSE]
         ELSE The({[fileTypes |-> r.fileTypes, err |-> r.err, parsed |-> TRUE] :
                      r \in {parseOutput(text)}}) :
            tridErr \in {checkTridError(text)}})

\* The error cmd.Wait reports for the child: an ExitError for a status other
\* than 0 or for a signal.
WaitErr(c) ==
    IF c = "exited1" THEN Err("exit status 1")
    ELSE IF c = "killed" THEN Err("signal: killed")
    ELSE NilErr

Return(r) ==
    /\ pc' = "done"
    /\ fileTypes' = r.fileTypes
    /\ err' = r.err
    /\ parsed' = r.parsed

\* Scan is called.  It returns at once when the validation fails or the command
\* cannot be started; otherwise the child runs and Scan waits for it.
ScanCall(path, n) ==
    /\ pc = "idle"
    /\ filePath' = path
    /\ numberOfMatches' = n
    /\ UNCHANGED <<options, helper, ctxErr, eol, emitted, out>>
    /\ IF Validate(path, n) # NilErr
       THEN /\ Return([fileTypes |-> NilSlice, err |-> Validate(path, n),
                       parsed |-> FALSE])
            /\ UNCHANGED <<child, cmdErr, started>>
       ELSE IF ~CanStart(options.Cmd)
       THEN /\ cmdErr' = Err("executable file not found")
            /\ \E r \in {ScanResult(out, execCmd(cmdErr', ctxErr))} : Return(r)
            /\ UNCHANGED <<child, started>>
       ELSE /\ pc' = "waiting"
            /\ child' = "running"
            /\ started' = TRUE
            /\ UNCHANGED <<cmdErr, fileTypes, err, parsed>>

\* A running process of the tool writes a line; CombinedOutput's buffer takes it.
Write(line) ==
    /\ pc = "waiting"
    /\ child = "running" \/ helper = "running"
    /\ Len(emitted) < MaxLines
    /\ emitted' = Append(emitted, line)
    /\ out' = out \o Render(line) \o eol
    /\ UNCHANGED <<pc, options, filePath, numberOfMatches, procVars, eol,
                   fileTypes, err, parsed>>

\* The child starts a process of its own, which inherits the output pipe.
Spawn ==
    /\ pc = "waiting"
    /\ child = "running"
    /\ helper = "none"
    /\ helper' = "running"
    /\ UNCHANGED <<pc, options, filePath, numberOfMatches, child, ctxErr, eol,
                   emitted, out, cmdErr, fileTypes, err, started, parsed>>

\* The child exits of its own accord, with status 0 or 1.
ChildExit(status) ==
    /\ pc = "waiting"
    /\ child = "running"
    /\ child' = status
    /\ UNCHANGED <<pc, options, filePath, numberOfMatches, helper, ctxErr, eol,
                   emitted, out, cmdErr, fileTypes, err, started, parsed>>

HelperExit ==
    /\ pc = "waiting"
    /\ helper = "running"
    /\ helper' = "exited"
    /\ UNCHANGED <<pc, options, filePath, numberOfMatches, child, ctxErr, eol,
                   emitted, out, cmdErr, fileTypes, err, started, parsed>>

\* The timeout elapses (line 194): exec.CommandContext kills the process it
\* started, if that still runs, and no other.
Deadline ==
    /\ pc = "waiting"
    /\ ctxErr = "nil"
    /\ ctxErr' = "DeadlineExceeded"
    /\ child' = IF child = "running" THEN "killed" ELSE child
    /\ UNCHANGED <<pc, options, filePath, numberOfMatches, helper, eol,
                   emitted, out, cmdErr, fileTypes, err, started, parsed>>

\* CombinedOutput copies the pipe into a buffer, so it returns when the child
\* has ended and every process holding the pipe has closed it.
CanReturn == pc = "waiting" /\ child # "running" /\ helper # "running"

\* CombinedOutput returns (line 201); execCmd and Scan run to their end.
ScanReturn ==
    /\ CanReturn
    /\ cmdErr' = WaitErr(child)
    /\ \E r \in {ScanResult(out, execCmd(cmdErr', ctxErr))} : Return(r)
    /\ UNCHANGED <<options, filePath, numberOfMatches, child, helper, ctxErr,
                   eol, emitted, out, started>>

Idle ==
    /\ pc = "idle"
    /\ filePath = ""
    /\ numberOfMatches = 0
    /\ child = "none"
    /\ helper = "none"
    /\ ctxErr = "nil"
    /\ cmdErr = NilErr
    /\ fileTypes = NilSlice
    /\ err = NilErr
    /\ started = FALSE
    /\ parsed = FALSE

Init ==
    /\ Idle
    /\ options \in {[Cmd |-> "trid"], [Cmd |-> "/unknown-command"]}
    /\ eol \in {<<NL>>, <<CR, NL>>}
    /\ emitted = <<>>
    /\ out = <<>>

Next ==
    \/ \E path \in Paths, n \in {-1, 0, 1, 3} : ScanCall(path, n)
    \/ \E line \in ScanMenu : Write(line)
    \/ Spawn
    \/ \E status \in {"exited0", "exited1"} : ChildExit(status)
    \/ HelperExit
    \/ Deadline
    \/ ScanReturn

Spec == Init /\ [][Next]_vars

(***************************************************************************)
(* parseOutput on its own: the text is any sequence of lines of ParseMenu, *)
(* each ended by a newline, by CR LF, or by a newline and a blank line.    *)
(***************************************************************************)
InitParse ==
    /\ Idle
    /\ options = [Cmd |-> "trid"]
    /\ eol \in {<<NL>>, <<CR, NL>>, <<NL, NL>>}
    /\ emitted \in SeqsUpTo(ParseMenu, MaxParseLines)
    /\ out = TextOf(emitted, eol)

ParseCall ==
    /\ pc = "idle"
    /\ \E r \in {parseOutput(out)} :
           Return([fileTypes |-> r.fileTypes, err |-> r.err, parsed |-> TRUE])
    /\ UNCHANGED <<options, filePath, numberOfMatches, procVars, eol, emitted, out>>

NextParse == ParseCall

SpecParse == InitParse /\ [][NextParse]_vars

(***************************************************************************)
(* checkTridError on its own: the text is any sequence of pieces of        *)
(* ClassifyMenu, set side by side or on lines of their own.                *)
(***************************************************************************)
InitClassify ==
    /\ Idle
    /\ options = [Cmd |-> "trid"]
    /\ eol \in {<<>>, <<" ">>, <<NL>>}
    /\ emitted \in SeqsUpTo(ClassifyMenu, MaxPieces)
    /\ out = TextOf(emitted, eol)

ClassifyCall ==
    /\ pc = "idle"
    /\ \E e \in {checkTridError(out)} :
           Return([fileTypes |-> NilSlice, err |-> e, parsed |-> FALSE])
    /\ UNCHANGED <<options, filePath, numberOfMatches, procVars, eol, emitted, out>>

NextClassify == ClassifyCall

SpecClassify == InitClassify /\ [][NextClassify]_vars

(***************************************************************************)
(* What the written lines say, read off their descriptions and not off     *)
(* the characters.                                                         *)
(***************************************************************************)
IsBlank(d) == d.kind = "plain" /\ d.text = <<>>

\* Whether some written line is the given text.
Wrote(text) == \E k \in 1..Len(emitted) : emitted[k].text = text

\* The error phrase signatures among the written pieces.
SigNoFile == Wrote(PhraseNoFile)
SigNoDefs == Wrote(PhraseNoDefs)
SigEmptyPackage == Wrote(PhraseDefPackage) /\ Wrote(PhraseIsEmpty)
SigNotFound == Wrote(PhraseNotFound)
SigUnknown == Wrote(PhraseUnknown)
AnySig == SigNoFile \/ SigNoDefs \/ SigEmptyPackage \/ SigNotFound \/ SigUnknown

\* The error of the signature that comes first in the order of priority.
FirstSigErr ==
    IF SigNoFile THEN ErrNoFileSpecified
    ELSE IF SigNoDefs THEN ErrNoDefinitions
    ELSE IF SigEmptyPackage THEN ErrEmptyDefPackage
    ELSE IF SigNotFound THEN ErrFileNotFound
    ELSE IF SigUnknown THEN ErrUnknownFileType
    ELSE NilErr

\* Whether lines i and j, i <= j, stand in one block: no blank line lies from
\* the one to the other, and no line is ended by a blank line of its own.
SameBlock(i, j) ==
    \/ i = j
    \/ eol # <<NL, NL>> /\ \A b \in i..j : ~IsBlank(emitted[b])

\* The positions of the header lines that come first in their block.
BlockHeaders ==
    {k \in 1..Len(emitted) :
        /\ emitted[k].kind = "header"
        /\ \A j \in 1..(k - 1) : emitted[j].kind = "header" => ~SameBlock(j, k)}

\* The blocks that yield a record, each named by the position of its header.
Accepted == {k \in BlockHeaders : emitted[k].numeric}

\* The n-th smallest element of a set of numbers.
Nth(S, n) == CHOOSE x \in S : Cardinality({y \in S : y < x}) = n - 1

\* The header line the n-th record comes from.
HeaderOf(n) == emitted[Nth(Accepted, n)]

\* Whether <<m, j>> and <<n, k>> name the same number, m / 10^j = n / 10^k.
SameNumber(a, b) == a[1] * Pow10(b[2]) = b[1] * Pow10(a[2])

AllButLast(q) == SubSeq(q, 1, Len(q) - 1)

\* The text of the last detail line with the given key in the block of line
\* k, or the empty text when the block has none.
LastDetail(k, key) ==
    LET at == {j \in 1..Len(emitted) :
                  /\ emitted[j].kind = "detail"
                  /\ emitted[j].key = key
                  /\ (IF j < k THEN SameBlock(j, k) ELSE SameBlock(k, j))}
    IN  IF at = {} THEN <<>> ELSE emitted[MaxOf(at)].text

Returned == pc = "done"

TimedOut == ctxErr = "DeadlineExceeded"

Records == fileTypes.items

\* C1: when the run of the subprocess has exceeded the timeout, Scan returns no
\* records, and its error is the one checkTridError finds in the partial output
\* if that contains a known error phrase, and otherwise the timeout error:
\* "command timed out", wrapping the error CombinedOutput returned (none when the
\* child had exited with status 0).
C1_TimeoutUnlessClassified ==
    (Returned /\ started /\ TimedOut) =>
        /\ fileTypes = NilSlice
        /\ AnySig => err = FirstSigErr
        /\ ~AnySig => err = [msg |-> "command timed out", wraps |-> cmdErr.msg]

\* C1 as stated: the timeout error for every content of the partial output.
C1_TimeoutAlways ==
    (Returned /\ started /\ TimedOut) =>
        /\ fileTypes = NilSlice
        /\ err.msg = "command timed out"
        /\ err.wraps = cmdErr.msg

\* The killed child had written a header line, and the timeout error comes back.
C1_Witness ==
    /\ Returned
    /\ started
    /\ TimedOut
    /\ child = "killed"
    /\ Len(emitted) > 0
    /\ ~AnySig
    /\ err = [msg |-> "command timed out", wraps |-> "signal: killed"]

\* C2: for a run that started and did not time out, Scan returns the error
\* checkTridError finds when the text contains a known error phrase, whatever
\* the exit status; without such a phrase a non-zero exit returns the error of
\* the wait and no records, and only a zero exit returns the parsed records
\* with a nil error.
C2_ExitStatusAfterPhrases ==
    (Returned /\ started /\ ~TimedOut) =>
        /\ AnySig => err = FirstSigErr /\ fileTypes = NilSlice
        /\ (~AnySig /\ child = "exited1") =>
               err = Err("exit status 1") /\ fileTypes = NilSlice
        /\ (~AnySig /\ child = "exited0") =>
               /\ err = NilErr
               /\ parsed
               /\ ~fileTypes.isNil
               /\ Len(Records) = Cardinality(Accepted)

\* C2 as stated: Scan fails exactly when the text contains a known phrase.
C2_ExitStatusIgnored ==
    (Returned /\ started /\ ~TimedOut) =>
        /\ AnySig <=> err # NilErr
        /\ ~AnySig =>
               parsed /\ ~fileTypes.isNil /\ Len(Records) = Cardinality(Accepted)

\* A header line was written, the child exited with status 1, and Scan
\* returned the exit error.
C2_Witness ==
    /\ Returned
    /\ started
    /\ ~TimedOut
    /\ child = "exited1"
    /\ \E k \in 1..Len(emitted) : emitted[k].kind = "header"
    /\ ~AnySig
    /\ err = Err("exit status 1")

\* C3: for a block whose header line is "P% (E) N", with P a number, E an
\* extension starting with a dot and holding no white space, and N a non-empty
\* name made of a text without parentheses and trailing qualifier groups,
\* parseOutput yields a record with Probability the value of P, Extension E
\* in lower case, and Name N without its last qualifier group (and the white
\* space before it) when N ends with one, N in full when it has none.
C3_HeaderFieldsLastGroupDropped ==
    (Returned /\ Len(Records) = Cardinality(Accepted)) =>
        \A n \in 1..Len(Records) :
            /\ SameNumber(Records[n].Probability, HeaderOf(n).value)
            /\ Records[n].Extension = HeaderOf(n).lower
            /\ Records[n].Name =
                   HeaderOf(n).base \o QualText(AllButLast(HeaderOf(n).quals))

\* C3 as stated: Name is N in full, every trailing qualifier group included.
C3_HeaderFieldsInFull ==
    (Returned /\ Len(Records) = Cardinality(Accepted)) =>
        \A n \in 1..Len(Records) :
            /\ SameNumber(Records[n].Probability, HeaderOf(n).value)
            /\ Records[n].Extension = HeaderOf(n).lower
            /\ Records[n].Name = FullName(HeaderOf(n))

\* The header "8.50% (.7z) z (v0.4) (4/1)" was parsed: the name keeps "(v0.4)"
\* and loses "(4/1)".
C3_Witness ==
    /\ Returned
    /\ Len(Records) = 1
    /\ Cardinality(Accepted) = 1
    /\ Len(HeaderOf(1).quals) = 2
    /\ Records[1].Name = <<"z", " ", "(", "v", "0", ".", "4", ")">>
    /\ Records[1].Probability = <<85, 1>>

C5_RecordsXorError ==
    Returned =>
        /\ (err = NilErr /\ ~fileTypes.isNil) \/ (err # NilErr /\ fileTypes = NilSlice)
        /\ (started /\ AnySig) => (~parsed /\ fileTypes.isNil /\ err # NilErr)

\* The tool wrote "Def package" and "is empty!": ErrEmptyDefPackage, a nil slice,
\* parseOutput not called.
C5_Witness ==
    /\ Returned
    /\ started
    /\ SigEmptyPackage
    /\ err = ErrEmptyDefPackage
    /\ fileTypes.isNil
    /\ ~parsed

\* C6: checkTridError returns the error of the first signature the text holds,
\* in the order no file specified, no definitions, empty package ("Def package"
\* and "is empty!" both), file not found, unknown file type ("Unknown!"), and
\* nil when it holds none, wherever the phrases stand in the text.
C6_FirstSignatureWins == Returned => err = FirstSigErr

\* "Unknown!" stands before the file-not-found phrase and ErrFileNotFound is
\* returned.
C6_Witness ==
    /\ Returned
    /\ Len(emitted) = 2
    /\ emitted[1].text = PhraseUnknown
    /\ emitted[2].text = PhraseNotFound
    /\ err = ErrFileNotFound

\* C7: once the timeout has elapsed, the child and every process it started
\* have ended, so the wait for the subprocess is over.
C7_TimeoutEndsProcessTree ==
    TimedOut => (child # "running" /\ helper # "running")

\* C8: parseOutput returns a nil error and a sequence (not nil) with one record
\* for every block whose first header line has a number as its probability, in
\* the order of the blocks, and none for any other block.
C8_OneRecordPerAcceptedBlock ==
    Returned =>
        /\ err = NilErr
        /\ ~fileTypes.isNil
        /\ Len(Records) = Cardinality(Accepted)
        /\ \A n \in 1..Len(Records) :
               /\ SameNumber(Records[n].Probability, HeaderOf(n).value)
               /\ Records[n].Extension = HeaderOf(n).lower

\* Three blocks, the second with the header "1.2.3% (.a) b": two records, of the
\* first and of the third.
C8_Witness ==
    /\ Returned
    /\ Len(emitted) = 3
    /\ emitted[2].kind = "header"
    /\ ~emitted[2].numeric
    /\ eol = <<NL, NL>>
    /\ Len(Records) = 2
    /\ Records[1].Probability = <<100, 0>>
    /\ Records[2].Probability = <<150, 0>>

\* C9: every record has a Probability from 0 to 100.
C9_ProbabilityInRange ==
    Returned =>
        \A n \in 1..Len(Records) :
            /\ Records[n].Probability[1] >= 0
            /\ Records[n].Probability[1] <= 100 * Pow10(Records[n].Probability[2])

\* C10: in every record, each of MimeType, RelatedURL, Definition and Remarks is
\* the value of the last detail line of the block with that key, the value
\* being the text after "Key:" on that line, and is empty when the block has no
\* such line; lines with another key change no field.
C10_DetailsFromOwnLine ==
    (Returned /\ Len(Records) = Cardinality(Accepted)) =>
        \A n \in 1..Len(Records) :
            /\ Records[n].MimeType = LastDetail(Nth(Accepted, n), KeyMimeType)
            /\ Records[n].RelatedURL = LastDetail(Nth(Accepted, n), KeyRelatedURL)
            /\ Records[n].Definition = LastDetail(Nth(Accepted, n), KeyDefinition)
            /\ Records[n].Remarks = LastDetail(Nth(Accepted, n), KeyRemarks)

====
